---- MODULE Spec2Model ----
(***************************************************************************)
(* Model of streamlit_app.py: one analysis request of the resume analyzer. *)
(* Strings are sequences of one-character strings.  The request runs       *)
(* truncate -> prompt -> generate -> extract -> parse -> present, one step *)
(* per action, in the order of the statements of analyze_resume and of the *)
(* script body that calls it.                                              *)
(***************************************************************************)
EXTENDS Integers, Sequences, FiniteSets, TLC

(***************************************************************************)
(* Characters and string helpers                                           *)
(***************************************************************************)

\* Python's \s and str.strip() whitespace, restricted to the model alphabet.
WS == {" ", "\n"}

\* Python's \w (letters, digits, underscore), restricted to the model alphabet.
WordChars == {"a", "b", "e", "g", "h", "i", "j", "l", "m", "n", "o", "p", "r",
              "s", "t", "u", "v", "y", "_", "5", "J", "S", "O", "N"}

\* Case folding used by re.IGNORECASE on the marker (json|JSON).
Lower(c) == CASE c = "J" -> "j" [] c = "S" -> "s" [] c = "O" -> "o"
              [] c = "N" -> "n" [] OTHER -> c

\* s[i:] of Python, with the model's 1-based index i.
From(s, i) == SubSeq(s, i, Len(s))

\* s.startswith(pat, i-1): pat occurs in s at 1-based position i.
IsAt(s, i, pat) ==
  /\ i >= 1
  /\ i + Len(pat) - 1 <= Len(s)
  /\ \A k \in 1..Len(pat) : s[i + k - 1] = pat[k]

\* Number of leading whitespace characters of s from position i on.
RECURSIVE WsRun(_, _)
WsRun(s, i) == IF i <= Len(s) /\ s[i] \in WS THEN 1 + WsRun(s, i + 1) ELSE 0

\* Number of trailing whitespace characters of s.
RECURSIVE WsTail(_, _)
WsTail(s, j) == IF j >= 1 /\ s[j] \in WS THEN 1 + WsTail(s, j - 1) ELSE 0

\* str.strip()
Strip(s) ==
  LET a == WsRun(s, 1)
  IN  IF a = Len(s) THEN << >> ELSE SubSeq(s, a + 1, Len(s) - WsTail(s, Len(s)))

\* Number of leading \w characters of s from position i on.
RECURSIVE WordRun(_, _)
WordRun(s, i) ==
  IF i <= Len(s) /\ s[i] \in WordChars THEN 1 + WordRun(s, i + 1) ELSE 0

\* Smallest position >= i where pat occurs in s, 0 when there is none.
RECURSIVE Find(_, _, _)
Find(s, pat, i) ==
  IF i + Len(pat) - 1 > Len(s) THEN 0
  ELSE IF IsAt(s, i, pat) THEN i
  ELSE Find(s, pat, i + 1)

(***************************************************************************)
(* Literals of the source                                                  *)
(***************************************************************************)

\* The backquote character U+0060, which a TLA+ string cannot hold.
Tick == "BACKQUOTE"

Backticks == <<Tick, Tick, Tick>>
FenceOpen == Backticks \o <<"j", "s", "o", "n">>
Marker == <<"j", "s", "o", "n">>

K_summary == <<"s", "u", "m", "m", "a", "r", "y">>
K_strengths == <<"s", "t", "r", "e", "n", "g", "t", "h", "s">>
K_improvements == <<"i", "m", "p", "r", "o", "v", "e", "m", "e", "n", "t", "s">>
K_job_roles == <<"j", "o", "b", "_", "r", "o", "l", "e", "s">>
K_error == <<"e", "r", "r", "o", "r">>
K_raw_output == <<"r", "a", "w", "_", "o", "u", "t", "p", "u", "t">>

(***************************************************************************)
(* Extraction of the candidate text (analyze_resume, tiers 1 to 3)         *)
(***************************************************************************)

\* Largest position where pat occurs in s at or after i, 0 when there is none.
RECURSIVE FindLast(_, _, _)
FindLast(s, pat, i) ==
  LET j == Find(s, pat, i)
  IN  IF j = 0 THEN 0
      ELSE IF Find(s, pat, j + 1) = 0 THEN j
      ELSE FindLast(s, pat, j + 1)

\* The search with a greedy group, ([\s\S]*) for ([\s\S]*?): the match runs
\* to the last three backticks of the output.
FenceSearchGreedy(raw) ==
  LET o == Find(raw, FenceOpen, 1)
      c == IF o = 0 THEN 0 ELSE FindLast(raw, Backticks, o + Len(FenceOpen))
  IN  [m |-> (o # 0 /\ c # 0), open |-> o, close |-> c]

\* re.search(r'```json\s*([\s\S]*?)\s*```', raw_output): the leftmost match
\* starts at the first opening fence that has three backticks somewhere
\* after it; [m |-> matched, open |-> start, close |-> start of the closing
\* backticks].
FenceSearch(raw) ==
  LET o == Find(raw, FenceOpen, 1)
      c == IF o = 0 THEN 0 ELSE Find(raw, Backticks, o + Len(FenceOpen))
  IN  [m |-> (o # 0 /\ c # 0), open |-> o, close |-> c]

\* json_match.group(1): \s* takes the whitespace after the fence, the lazy
\* group stops at the first position from which \s*``` matches.
FenceGroup(raw) ==
  LET f == FenceSearch(raw)
      a == f.open + Len(FenceOpen)
      b == a + WsRun(raw, a)
      inner == SubSeq(raw, b, f.close - 1)
  IN  SubSeq(inner, 1, Len(inner) - WsTail(inner, Len(inner)))

\* The prefix strip without re.IGNORECASE: only json and JSON are markers.
CleanedOutputCaseSensitive(raw) ==
  IF IsAt(raw, 1, Marker) \/ IsAt(raw, 1, <<"J", "S", "O", "N">>)
  THEN Strip(From(raw, Len(Marker) + 1 + WsRun(raw, Len(Marker) + 1)))
  ELSE Strip(raw)

\* re.sub(r'^(json|JSON)\s*', '', raw_output, flags=re.IGNORECASE).strip()
CleanedOutput(raw) ==
  LET folded == [k \in 1..Len(raw) |-> Lower(raw[k])]
  IN  IF IsAt(folded, 1, Marker)
      THEN Strip(From(raw, Len(Marker) + 1 + WsRun(raw, Len(Marker) + 1)))
      ELSE Strip(raw)

\* re.match(r'"\w+":', cleaned_output)
MatchQuotedKey(s) ==
  /\ Len(s) >= 1 /\ s[1] = "\""
  /\ LET w == WordRun(s, 2)
     IN  w >= 1 /\ IsAt(s, 2 + w, <<"\"", ":">>)

\* re.match(r'\w+:', cleaned_output)
MatchBareKey(s) ==
  LET w == WordRun(s, 1)
  IN  w >= 1 /\ IsAt(s, 1 + w, <<":">>)

\* cleaned_output.startswith('{') and cleaned_output.endswith('}')
IsBraced(s) == Len(s) >= 1 /\ s[1] = "{" /\ s[Len(s)] = "}"

\* The else branch of the fence test: prefix strip, then brace completion.
FallbackCandidate(raw) ==
  LET cleaned == CleanedOutput(raw)
  IN  IF cleaned # << >> /\ ~IsBraced(cleaned)
      THEN IF MatchQuotedKey(cleaned) \/ MatchBareKey(cleaned)
           THEN <<"{">> \o cleaned \o <<"}">>
           ELSE cleaned
      ELSE cleaned

\* parsed_json_text as computed by lines 76-89.
Candidate(raw) ==
  IF FenceSearch(raw).m THEN Strip(FenceGroup(raw)) ELSE FallbackCandidate(raw)

(***************************************************************************)
(* Values produced by json.loads                                           *)
(***************************************************************************)

\* Python values: None, bool, int, str, list, dict.  A dict keeps its keys
\* in insertion order (ks) next to the mapping (o).
JNull == [t |-> "null"]
JBool(b) == [t |-> "bool", b |-> b]
JNum(ds) == [t |-> "num", n |-> ds]
JStr(cs) == [t |-> "str", s |-> cs]
JArr(items) == [t |-> "arr", a |-> items]
JObj(ks, o) == [t |-> "obj", ks |-> ks, o |-> o]

EmptyObj == JObj(<< >>, << >>)

\* d[k] = v on a dict: a new key goes last, an old key keeps its place.
DictSet(d, k, v) ==
  IF k \in DOMAIN d.o
  THEN JObj(d.ks, [d.o EXCEPT ![k] = v])
  ELSE JObj(Append(d.ks, k), (k :> v) @@ d.o)

\* k in d, d.get(k, default)
HasKey(d, k) == k \in DOMAIN d.o
DictGet(d, k, default) == IF k \in DOMAIN d.o THEN d.o[k] ELSE default

(***************************************************************************)
(* json.loads: the strict parser of the standard library, on the model     *)
(* alphabet (no backslash escapes, digits without sign or fraction).       *)
(* A result is [ok, v, end, err]: end is the position after the value.     *)
(***************************************************************************)

Digits == {"5"}

Ok(v, e) == [ok |-> TRUE, v |-> v, end |-> e, err |-> ""]
Err(msg, e) == [ok |-> FALSE, v |-> JNull, end |-> e, err |-> msg]

\* json.decoder.WHITESPACE.match(s, i).end()
SkipWs(s, i) == i + WsRun(s, i)

\* Characters of s at position i, "" past the end (s[i:i+1]).
CharAt(s, i) == IF i >= 1 /\ i <= Len(s) THEN s[i] ELSE ""

\* py_scanstring from the position after the opening quote.
RECURSIVE ScanString(_, _, _)
ScanString(s, i, acc) ==
  IF i > Len(s) THEN Err("Unterminated string starting at", i)
  ELSE IF s[i] = "\"" THEN Ok(JStr(acc), i + 1)
  ELSE IF s[i] = "\n" THEN Err("Invalid control character at", i)
  ELSE ScanString(s, i + 1, Append(acc, s[i]))

RECURSIVE DigitRun(_, _)
DigitRun(s, i) ==
  IF i <= Len(s) /\ s[i] \in Digits THEN 1 + DigitRun(s, i + 1) ELSE 0

RECURSIVE ScanOnce(_, _)
RECURSIVE ObjectMembers(_, _, _)
RECURSIVE ArrayItems(_, _, _)

\* JSONObject from the position after the opening brace.
ParseObject(s, i) ==
  LET j == IF CharAt(s, i) \in WS THEN SkipWs(s, i) ELSE i
  IN  IF CharAt(s, j) = "}" THEN Ok(EmptyObj, j + 1)
      ELSE IF CharAt(s, j) # "\""
           THEN Err("Expecting property name enclosed in double quotes", j)
      ELSE ObjectMembers(s, j + 1, EmptyObj)

\* The member loop of JSONObject; i is the position after a key's opening
\* quote.
ObjectMembers(s, i, d) ==
  LET key == ScanString(s, i, << >>)
  IN  IF ~key.ok THEN key
      ELSE
        LET c == IF CharAt(s, key.end) # ":" THEN SkipWs(s, key.end) ELSE key.end
        IN  IF CharAt(s, c) # ":" THEN Err("Expecting ':' delimiter", c)
            ELSE
              LET val == ScanOnce(s, SkipWs(s, c + 1))
              IN  IF ~val.ok THEN val
                  ELSE
                    LET d2 == DictSet(d, key.v.s, val.v)
                        e == SkipWs(s, val.end)
                    IN  IF CharAt(s, e) = "}" THEN Ok(d2, e + 1)
                        ELSE IF CharAt(s, e) # ","
                             THEN Err("Expecting ',' delimiter", e)
                        ELSE
                          LET n == SkipWs(s, e + 1)
                          IN  IF CharAt(s, n) # "\""
                              THEN Err("Expecting property name enclosed in double quotes", n)
                              ELSE ObjectMembers(s, n + 1, d2)

\* JSONArray from the position after the opening bracket.
ParseArray(s, i) ==
  LET j == SkipWs(s, i)
  IN  IF CharAt(s, j) = "]" THEN Ok(JArr(<< >>), j + 1)
      ELSE ArrayItems(s, j, << >>)

\* The item loop of JSONArray.
ArrayItems(s, i, acc) ==
  LET val == ScanOnce(s, i)
  IN  IF ~val.ok THEN val
      ELSE
        LET acc2 == Append(acc, val.v)
            e == SkipWs(s, val.end)
        IN  IF CharAt(s, e) = "]" THEN Ok(JArr(acc2), e + 1)
            ELSE IF CharAt(s, e) # "," THEN Err("Expecting ',' delimiter", e)
            ELSE ArrayItems(s, SkipWs(s, e + 1), acc2)

\* scan_once of json.scanner; StopIteration becomes "Expecting value".
ScanOnce(s, i) ==
  LET c == CharAt(s, i)
  IN  IF c = "\"" THEN ScanString(s, i + 1, << >>)
      ELSE IF c = "{" THEN ParseObject(s, i + 1)
      ELSE IF c = "[" THEN ParseArray(s, i + 1)
      ELSE IF IsAt(s, i, <<"n", "u", "l", "l">>) THEN Ok(JNull, i + 4)
      ELSE IF IsAt(s, i, <<"t", "r", "u", "e">>) THEN Ok(JBool(TRUE), i + 4)
      ELSE IF IsAt(s, i, <<"f", "a", "l", "s", "e">>) THEN Ok(JBool(FALSE), i + 5)
      ELSE IF c \in Digits
           THEN Ok(JNum(SubSeq(s, i, i + DigitRun(s, i) - 1)), i + DigitRun(s, i))
      ELSE Err("Expecting value", i)

\* JSONDecoder.decode: one value, then nothing but whitespace.
JsonLoads(s) ==
  LET r == ScanOnce(s, SkipWs(s, 1))
  IN  IF ~r.ok THEN r
      ELSE IF SkipWs(s, r.end) # Len(s) + 1 THEN Err("Extra data", SkipWs(s, r.end))
      ELSE r

(***************************************************************************)
(* The tokenizer of MODEL_NAME as analyze_resume uses it: a SentencePiece  *)
(* vocabulary (here one piece per character, "_" marking a word start),    *)
(* the special tokens </s> and <unk>.                                      *)
(***************************************************************************)

\* Token budget of the truncation step.  The source sets 450; the model
\* scales it down so that texts of a few characters exceed it.
MAX_INPUT_TOKENS == 4

\* Characters the vocabulary has a piece for; any other character of a text
\* (here "{") encodes to <unk>.
VocabChars == {"a", "b"}

EOS == "</s>"
UNK == "<unk>"
SpecialTokens == {EOS, UNK}

\* The normalizer: every whitespace character becomes one space, runs of
\* spaces collapse, leading and trailing spaces go.
RECURSIVE Collapse(_, _)
Collapse(s, i) ==
  IF i > Len(s) THEN << >>
  ELSE IF s[i] \in WS
       THEN IF i > 1 /\ s[i - 1] \in WS THEN Collapse(s, i + 1)
            ELSE <<" ">> \o Collapse(s, i + 1)
  ELSE <<s[i]>> \o Collapse(s, i + 1)

Normalize(text) == Collapse(Strip(text), 1)

\* The pieces of a normalized text from position i on; sp says that a space
\* (or the start of the text) precedes position i, unk that the previous
\* piece is <unk> (consecutive unknown characters fuse into one <unk>).
RECURSIVE Pieces(_, _, _, _)
Pieces(s, i, sp, unk) ==
  IF i > Len(s) THEN << >>
  ELSE IF s[i] = " " THEN Pieces(s, i + 1, TRUE, FALSE)
  ELSE IF s[i] \in VocabChars
       THEN <<(IF sp THEN "_" ELSE "") \o s[i]>> \o Pieces(s, i + 1, FALSE, FALSE)
  ELSE (IF sp THEN <<"_">> ELSE << >>)
         \o (IF unk /\ ~sp THEN << >> ELSE <<UNK>>)
         \o Pieces(s, i + 1, FALSE, TRUE)

\* tokenizer.encode(text) without a length limit: the pieces and </s>.
Tokenize(text) == Pieces(Normalize(text), 1, TRUE, FALSE) \o <<EOS>>

\* tokenizer.encode(text, max_length=max_length, truncation=True): the
\* pieces are cut to max_length - 1, then </s> is appended.
Encode(text, max_length) ==
  LET ps == Pieces(Normalize(text), 1, TRUE, FALSE)
  IN  IF Len(ps) + 1 > max_length
      THEN SubSeq(ps, 1, max_length - 1) \o <<EOS>>
      ELSE ps \o <<EOS>>

\* The text of one piece.
PieceText(tok) ==
  CASE tok = "_a" -> <<" ", "a">>
    [] tok = "_b" -> <<" ", "b">>
    [] tok = "_" -> <<" ">>
    [] tok = "a" -> <<"a">>
    [] tok = "b" -> <<"b">>
    [] OTHER -> << >>

RECURSIVE JoinPieces(_, _)
JoinPieces(ids, i) ==
  IF i > Len(ids) THEN << >>
  ELSE IF ids[i] \in SpecialTokens THEN JoinPieces(ids, i + 1)
  ELSE PieceText(ids[i]) \o JoinPieces(ids, i + 1)

\* tokenizer.decode(ids, skip_special_tokens=True): special tokens are
\* dropped, the pieces joined, the space of the first piece removed.
Decode(ids) ==
  LET t == JoinPieces(ids, 1)
  IN  IF t # << >> /\ t[1] = " " THEN Tail(t) ELSE t

\* Lines 38-39: truncated_text.
Truncate(text) == Decode(Encode(text, MAX_INPUT_TOKENS))

\* The f-string of lines 41-65: the fixed instructions, the text between
\* the two fences, the fixed format demand.
BuildPrompt(truncated) == <<"INSTRUCTIONS">> \o truncated \o <<"FORMAT">>

(***************************************************************************)
(* Inputs: texts a PDF can yield, outputs the generator can return         *)
(***************************************************************************)

\* Longest text drawn in the truncation specification.
MaxTextLen == 5

TextChars == {"a", "b", " ", "\n", "{"}

RECURSIVE SeqsUpTo(_, _)
SeqsUpTo(S, n) ==
  IF n = 0 THEN {<< >>}
  ELSE LET shorter == SeqsUpTo(S, n - 1)
       IN  shorter \cup {Append(q, c) : q \in {x \in shorter : Len(x) = n - 1}, c \in S}

AllTexts == SeqsUpTo(TextChars, MaxTextLen)

SampleTexts == {<<"a">>, <<"a", "b", " ", "a", "\n", "b">>, <<" ", "\n">>}

\* a complete record
B_full ==
  <<"{", "\"", "s", "u", "m", "m", "a", "r", "y", "\"", ":", " ", "\"",
    "S", "\"", ",", " ", "\"", "s", "t", "r", "e", "n", "g", "t", "h", "s",
    "\"", ":", " ", "[", "\"", "a", "\"", ",", " ", "\"", "b", "\"", "]",
    ",", " ", "\"", "i", "m", "p", "r", "o", "v", "e", "m", "e", "n", "t",
    "s", "\"", ":", " ", "[", "]", ",", " ", "\"", "j", "o", "b", "_", "r",
    "o", "l", "e", "s", "\"", ":", " ", "[", "\"", "a", "\"", "]", "}">>
\* an object without job_roles
B_nojobs ==
  <<"{", "\"", "s", "u", "m", "m", "a", "r", "y", "\"", ":", "\"", "S",
    "\"", ",", "\"", "s", "t", "r", "e", "n", "g", "t", "h", "s", "\"",
    ":", "[", "\"", "a", "\"", "]", ",", "\"", "i", "m", "p", "r", "o",
    "v", "e", "m", "e", "n", "t", "s", "\"", ":", "[", "\"", "b", "\"",
    "]", "}">>
\* numbers where a string and a list belong
B_badshape ==
  <<"{", "\"", "s", "u", "m", "m", "a", "r", "y", "\"", ":", "5", ",",
    "\"", "s", "t", "r", "e", "n", "g", "t", "h", "s", "\"", ":", "5", "}">>
\* a string where a list belongs
B_strshape ==
  <<"{", "\"", "s", "t", "r", "e", "n", "g", "t", "h", "s", "\"", ":",
    "\"", "a", "b", "\"", "}">>
\* an object the model produced with a key named error
B_err ==
  <<"{", "\"", "e", "r", "r", "o", "r", "\"", ":", "\"", "a", "\"", ",",
    "\"", "s", "u", "m", "m", "a", "r", "y", "\"", ":", "\"", "S", "\"",
    "}">>
\* the empty object
B_emptyobj == <<"{", "}">>
\* output cut off inside the object
B_trunc ==
  <<"{", "\"", "s", "u", "m", "m", "a", "r", "y", "\"", ":", "\"", "S",
    "\"", ",", "\"", "s", "t", "r", "e", "n", "g", "t", "h", "s", "\"",
    ":", "[", "\"", "a", "\"", ",", "\"", "b", "\"">>
\* object interior without the enclosing braces
B_interior ==
  <<"\"", "s", "u", "m", "m", "a", "r", "y", "\"", ":", " ", "\"", "S",
    "\"", ",", " ", "\"", "s", "t", "r", "e", "n", "g", "t", "h", "s",
    "\"", ":", " ", "[", "]">>
B_interior2 ==
  <<"\"", "j", "o", "b", "_", "r", "o", "l", "e", "s", "\"", ":", "[",
    "\"", "a", "\"", "]">>
\* interior with an unquoted key
B_barekey ==
  <<"s", "u", "m", "m", "a", "r", "y", ":", " ", "\"", "S", "\"">>
\* interior with a space before the colon
B_spaced ==
  <<"\"", "s", "u", "m", "m", "a", "r", "y", "\"", " ", ":", " ", "\"",
    "S", "\"">>
\* JSON values that are not objects
B_null == <<"n", "u", "l", "l">>
B_true == <<"t", "r", "u", "e">>
B_num == <<"5">>
B_str == <<"\"", "S", "\"">>
B_strerr == <<"\"", "e", "r", "r", "o", "r", "\"">>
B_arr == <<"[", "\"", "a", "\"", "]">>
B_arrerr == <<"[", "\"", "e", "r", "r", "o", "r", "\"", "]">>
\* prose
B_prose == <<"a", " ", "b">>
\* nothing at all
B_empty == << >>

Bodies ==
  {B_full, B_nojobs, B_badshape, B_strshape, B_err,
   B_emptyobj, B_trunc, B_interior, B_interior2, B_barekey,
   B_spaced, B_null, B_true, B_num, B_str,
   B_strerr, B_arr, B_arrerr, B_prose, B_empty}

Prefixes == {<< >>, <<"S", " ">>, Backticks \o <<" ">>}
Suffixes == {<< >>, <<" ", "a", " ", "b">>, <<"\n">> \o FenceOpen \o <<"{", "}">> \o Backticks}
Paddings == {<< >>, <<"\n">>}
Markers == {<<"j", "s", "o", "n">>, <<"J", "S", "O", "N">>, <<"J", "s", "o", "n">>}

\* pre ```json body ``` post
Fenced(pre, pad, body, post) ==
  pre \o FenceOpen \o pad \o body \o pad \o Backticks \o post

FencedOutputs ==
  {Fenced(pre, pad, body, post) :
     pre \in Prefixes, pad \in Paddings, body \in Bodies, post \in Suffixes}

\* json body, without a fence
MarkedOutputs == {m \o pad \o body : m \in Markers, pad \in Paddings, body \in Bodies}

\* the body alone, and with whitespace around it
BareOutputs == Bodies \cup {<<"\n">> \o body \o <<" ">> : body \in Bodies}

\* an opening fence that is never closed
UnclosedOutputs == {FenceOpen \o <<"\n">> \o body : body \in Bodies}

RawOutputs == FencedOutputs \cup MarkedOutputs \cup BareOutputs \cup UnclosedOutputs

SampleOutputs == {Fenced(<< >>, <<"\n">>, B_full, << >>), B_trunc}

(***************************************************************************)
(* The presenter (script body, lines 133-168)                              *)
(***************************************************************************)

Widget(w, arg) == [w |-> w, arg |-> arg]

\* Python truthiness of a parsed value.
Truthy(v) ==
  CASE v.t = "null" -> FALSE
    [] v.t = "bool" -> v.b
    [] v.t = "num" -> \E k \in 1..Len(v.n) : v.n[k] # "0"
    [] v.t = "str" -> v.s # << >>
    [] v.t = "arr" -> v.a # << >>
    [] v.t = "obj" -> v.ks # << >>

\* Values a for loop can iterate, and what it yields.
Iterable(v) == v.t \in {"str", "arr", "obj"}
Items(v) ==
  CASE v.t = "arr" -> v.a
    [] v.t = "str" -> [k \in 1..Len(v.s) |-> JStr(<<v.s[k]>>)]
    [] v.t = "obj" -> [k \in 1..Len(v.ks) |-> JStr(v.ks[k])]

\* "error" in analysis_result: [raises, holds].
ErrorTest(r) ==
  CASE r.t = "obj" -> [raises |-> FALSE, holds |-> HasKey(r, K_error)]
    [] r.t = "arr" -> [raises |-> FALSE, holds |-> \E k \in 1..Len(r.a) : r.a[k] = JStr(K_error)]
    [] r.t = "str" -> [raises |-> FALSE, holds |-> Find(r.s, K_error, 1) # 0]
    [] OTHER -> [raises |-> TRUE, holds |-> FALSE]

\* One list section: the items of r.get(key) when it is truthy, the
\* placeholder otherwise; [ok, ws], ok false when the loop raises TypeError.
Section(r, key, w) ==
  LET v == DictGet(r, key, JNull)
  IN  IF ~Truthy(v) THEN [ok |-> TRUE, ws |-> <<Widget("markdown", JStr(<<"No ">> \o key))>>]
      ELSE IF ~Iterable(v) THEN [ok |-> FALSE, ws |-> << >>]
      ELSE [ok |-> TRUE, ws |-> [k \in 1..Len(Items(v)) |-> Widget(w, Items(v)[k])]]

\* The else branch of the error test, for a dict: [ok, ws].
Render(r) ==
  LET s0 == <<Widget("info", DictGet(r, K_summary, JStr(<<"No summary provided.">>)))>>
      s1 == Section(r, K_strengths, "markdown")
      s2 == Section(r, K_improvements, "warning")
      s3 == Section(r, K_job_roles, "success")
  IN  IF ~s1.ok THEN [ok |-> FALSE, ws |-> s0]
      ELSE IF ~s2.ok THEN [ok |-> FALSE, ws |-> s0 \o s1.ws]
      ELSE IF ~s3.ok THEN [ok |-> FALSE, ws |-> s0 \o s1.ws \o s2.ws]
      ELSE [ok |-> TRUE,
            ws |-> s0 \o s1.ws \o s2.ws \o s3.ws \o <<Widget("download", r)>>]

\* Lines 133-168: [exc, ws], exc the unhandled exception or "".
Present(r) ==
  LET e == ErrorTest(r)
  IN  IF e.raises THEN [exc |-> "TypeError", ws |-> << >>]
      ELSE IF e.holds
           THEN [exc |-> "", ws |-> <<Widget("error", JStr(<<"An error occurred during analysis.">>))>>]
      ELSE IF r.t # "obj" THEN [exc |-> "AttributeError", ws |-> << >>]
      ELSE LET out == Render(r)
           IN  [exc |-> IF out.ok THEN "" ELSE "TypeError", ws |-> out.ws]

\* Line 96: the value returned when json.loads raises JSONDecodeError.
FailureValue(raw) ==
  DictSet(DictSet(EmptyObj, K_error,
                  JStr(<<"Failed to parse AI output as JSON. See logs for details.">>)),
          K_raw_output, JStr(raw))

\* A parser that sends a failed parse back to the generator.
PcAfterParseRetry(ok) == IF ok THEN "present" ELSE "generate"

\* Lines 91-98: analyze_resume returns after one attempt, parsed or not.
PcAfterParse(ok) == "present"

(***************************************************************************)
(* State                                                                   *)
(***************************************************************************)

VARIABLES
  pc,                \* position of the script: idle, ready, no_text, truncate,
                     \* prompt, generate, extract, parse, present, done, crashed
  resume_text,       \* text extracted from the uploaded PDF
  encoded_input,     \* token ids of line 38
  truncated_text,    \* line 39
  prompt,            \* lines 41-65
  generator_calls,   \* the prompts the generator was called with
  raw_output,        \* line 70
  parsed_json_text,  \* the candidate of lines 76-89
  parse_error,       \* message of the JSONDecodeError, "" when none
  analysis_result,   \* the value analyze_resume returns
  ui,                \* the widgets rendered so far
  exc,               \* the unhandled exception that ended the script, or ""
  steps              \* the steps taken by this request, in order

vars == <<pc, resume_text, encoded_input, truncated_text, prompt,
          generator_calls, raw_output, parsed_json_text, parse_error,
          analysis_result, ui, exc, steps>>

Init ==
  /\ pc = "idle"
  /\ resume_text = << >>
  /\ encoded_input = << >>
  /\ truncated_text = << >>
  /\ prompt = << >>
  /\ generator_calls = << >>
  /\ raw_output = << >>
  /\ parsed_json_text = << >>
  /\ parse_error = ""
  /\ analysis_result = EmptyObj
  /\ ui = << >>
  /\ exc = ""
  /\ steps = << >>

(***************************************************************************)
(* Actions                                                                 *)
(***************************************************************************)

\* A PDF is uploaded; extract_text_from_pdf returns its text, stripped.
Upload(texts) ==
  /\ pc = "idle"
  /\ \E t \in texts : resume_text' = Strip(t)
  /\ pc' = "ready"
  /\ UNCHANGED <<encoded_input, truncated_text, prompt, generator_calls,
                 raw_output, parsed_json_text, parse_error, analysis_result,
                 ui, exc, steps>>

\* The Analyze button is pressed (lines 128, 170): without text a warning.
Click ==
  /\ pc = "ready"
  /\ IF resume_text # << >>
     THEN pc' = "truncate" /\ ui' = ui
     ELSE pc' = "no_text" /\ ui' = Append(ui, Widget("warning", JStr(<<"Please upload a PDF file">>)))
  /\ UNCHANGED <<resume_text, encoded_input, truncated_text, prompt,
                 generator_calls, raw_output, parsed_json_text, parse_error,
                 analysis_result, exc, steps>>

\* Lines 38-39.
TruncateStep ==
  /\ pc = "truncate"
  /\ encoded_input' = Encode(resume_text, MAX_INPUT_TOKENS)
  /\ truncated_text' = Truncate(resume_text)
  /\ steps' = Append(steps, "truncate")
  /\ pc' = "prompt"
  /\ UNCHANGED <<resume_text, prompt, generator_calls, raw_output,
                 parsed_json_text, parse_error, analysis_result, ui, exc>>

\* Lines 41-65.
PromptStep ==
  /\ pc = "prompt"
  /\ prompt' = BuildPrompt(truncated_text)
  /\ steps' = Append(steps, "prompt")
  /\ pc' = "generate"
  /\ UNCHANGED <<resume_text, encoded_input, truncated_text, generator_calls,
                 raw_output, parsed_json_text, parse_error, analysis_result,
                 ui, exc>>

\* Lines 68-70: the generator returns any text; raw_output is it, stripped.
Generate(outputs) ==
  /\ pc = "generate"
  /\ generator_calls' = Append(generator_calls, prompt)
  /\ \E g \in outputs : raw_output' = Strip(g)
  /\ steps' = Append(steps, "generate")
  /\ pc' = "extract"
  /\ UNCHANGED <<resume_text, encoded_input, truncated_text, prompt,
                 parsed_json_text, parse_error, analysis_result, ui, exc>>

\* Lines 73-89.
ExtractStep ==
  /\ pc = "extract"
  /\ parsed_json_text' = Candidate(raw_output)
  /\ analysis_result' = EmptyObj
  /\ steps' = Append(steps, "extract")
  /\ pc' = "parse"
  /\ UNCHANGED <<resume_text, encoded_input, truncated_text, prompt,
                 generator_calls, raw_output, parse_error, ui, exc>>

\* Lines 91-98.
ParseStep ==
  /\ pc = "parse"
  /\ LET r == JsonLoads(parsed_json_text)
     IN  /\ IF r.ok
            THEN /\ analysis_result' = r.v
                 /\ UNCHANGED <<parse_error, ui>>
            ELSE /\ parse_error' = r.err
                 /\ ui' = ui \o <<Widget("error", JStr(<<r.err>>)),
                                  Widget("code", JArr(<<JStr(raw_output), JStr(parsed_json_text)>>))>>
                 /\ analysis_result' = FailureValue(raw_output)
         /\ pc' = PcAfterParse(r.ok)
  /\ steps' = Append(steps, "parse")
  /\ UNCHANGED <<resume_text, encoded_input, truncated_text, prompt,
                 generator_calls, raw_output, parsed_json_text, exc>>

\* Lines 133-168.
PresentStep ==
  /\ pc = "present"
  /\ LET out == Present(analysis_result)
     IN  /\ ui' = ui \o out.ws
         /\ exc' = out.exc
         /\ pc' = IF out.exc = "" THEN "done" ELSE "crashed"
  /\ steps' = Append(steps, "present")
  /\ UNCHANGED <<resume_text, encoded_input, truncated_text, prompt,
                 generator_calls, raw_output, parsed_json_text, parse_error,
                 analysis_result>>

\* One request with every output the generator may return.
Next ==
  \/ Upload(SampleTexts)
  \/ Click
  \/ TruncateStep
  \/ PromptStep
  \/ Generate(RawOutputs)
  \/ ExtractStep
  \/ ParseStep
  \/ PresentStep

Spec == Init /\ [][Next]_vars

\* One request with every text up to MaxTextLen characters.
NextTrunc ==
  \/ Upload(AllTexts)
  \/ Click
  \/ TruncateStep
  \/ PromptStep
  \/ Generate(SampleOutputs)
  \/ ExtractStep
  \/ ParseStep
  \/ PresentStep

SpecTrunc == Init /\ [][NextTrunc]_vars

(***************************************************************************)
(* Properties                                                              *)
(***************************************************************************)

\* analyze_resume has returned.
Returned == pc \in {"present", "done", "crashed"}

\* The script has ended after an analysis.
Finished == pc \in {"done", "crashed"}

\* The candidate has been computed.
Extracted == pc \in {"parse", "present", "done", "crashed"}

HasWidget(w) == \E k \in 1..Len(ui) : ui[k].w = w

\* The presenter's own error report (line 134); the parse diagnostic of
\* line 94 is always followed by a code widget, this one never is.
FailureReported ==
  \E k \in 1..Len(ui) : ui[k].w = "error" /\ (k = Len(ui) \/ ui[k + 1].w # "code")

\* The four sections and the download were rendered.
RecordRendered == HasWidget("info") /\ HasWidget("download")

IsPrefix(p, q) == Len(p) <= Len(q) /\ \A k \in 1..Len(p) : p[k] = q[k]

StringList(v) == v.t = "arr" /\ \A k \in 1..Len(v.a) : v.a[k].t = "str"

\* summary a string, the three list fields sequences of strings, all present.
FullShape(r) ==
  /\ r.t = "obj"
  /\ {K_summary, K_strengths, K_improvements, K_job_roles} \subseteq DOMAIN r.o
  /\ r.o[K_summary].t = "str"
  /\ StringList(r.o[K_strengths])
  /\ StringList(r.o[K_improvements])
  /\ StringList(r.o[K_job_roles])

\* C1: whenever the candidate parsed to an object, the value analyze_resume
\* returns, and the value the download exports, has all four keys with
\* summary a string and the three list fields sequences of strings.
C1_RecordHasFullShape ==
  /\ Returned /\ parse_error = "" /\ analysis_result.t = "obj"
       => FullShape(analysis_result)
  /\ \A k \in 1..Len(ui) : ui[k].w = "download" => FullShape(ui[k].arg)

K_attempted_parse_text ==
  <<"a", "t", "t", "e", "m", "p", "t", "e", "d", "_", "p", "a", "r", "s", "e",
    "_", "t", "e", "x", "t">>
K_parse_error == <<"p", "a", "r", "s", "e", "_", "e", "r", "r", "o", "r">>

\* C2: whenever the candidate failed to parse, the returned value holds the
\* four fields error, raw_output, attempted_parse_text and parse_error, with
\* raw_output the model output, attempted_parse_text the candidate handed to
\* the parser and parse_error non-empty.
C2_FailureValueComplete ==
  Returned /\ parse_error # "" =>
    /\ analysis_result.t = "obj"
    /\ {K_error, K_raw_output, K_attempted_parse_text, K_parse_error}
         \subseteq DOMAIN analysis_result.o
    /\ analysis_result.o[K_raw_output] = JStr(raw_output)
    /\ analysis_result.o[K_attempted_parse_text] = JStr(parsed_json_text)
    /\ analysis_result.o[K_parse_error].t = "str"
    /\ analysis_result.o[K_parse_error].s # << >>

\* C3: a request never ends in an unhandled exception, and a request that
\* ran the analysis ends with exactly one of: a record rendered, a failure
\* reported.
C3_NoUnhandledException ==
  /\ pc # "crashed"
  /\ exc = ""
  /\ pc = "done" => (RecordRendered # FailureReported)

\* C4: when the output is pre ```json body ``` post, the candidate is the
\* trimmed body whatever pre and post are, and the complete record in a
\* fence comes back with its summary and strengths verbatim.
C4_FencedCandidate ==
  \A pre \in Prefixes, pad \in Paddings, body \in Bodies, post \in Suffixes :
    raw_output = Strip(Fenced(pre, pad, body, post)) =>
      /\ Extracted => parsed_json_text = body
      /\ Returned /\ body = B_full =>
           /\ parse_error = ""
           /\ analysis_result.t = "obj"
           /\ analysis_result.o[K_summary] = JStr(<<"S">>)
           /\ analysis_result.o[K_strengths] = JArr(<<JStr(<<"a">>), JStr(<<"b">>)>>)

\* C4 witness: a fenced complete record between prose and a second fenced
\* block was analysed and rendered.
C4_Witness ==
  /\ pc = "done"
  /\ raw_output = Fenced(<<"S", " ">>, <<"\n">>, B_full, <<"\n">> \o FenceOpen \o <<"{", "}">> \o Backticks)
  /\ parsed_json_text = B_full
  /\ RecordRendered

\* Object interior that opens with a quoted key and its colon.
Interiors == {B_interior, B_interior2}

ContentTokens(text) == SubSeq(Tokenize(text), 1, Len(Tokenize(text)) - 1)

\* C6: the truncated text encodes to at most MAX_INPUT_TOKENS tokens and its
\* token sequence is a prefix of the token sequence of the input.
C6_TruncationPrefix ==
  pc \notin {"idle", "ready", "no_text", "truncate"} =>
    /\ Len(Tokenize(truncated_text)) <= MAX_INPUT_TOKENS
    /\ IsPrefix(ContentTokens(truncated_text), ContentTokens(resume_text))

\* C7: a text of at most MAX_INPUT_TOKENS tokens comes back unchanged, and
\* truncating a truncated text again changes nothing.
C7_ShortTextUnchanged ==
  pc \notin {"idle", "ready", "no_text", "truncate"} =>
    /\ Len(Tokenize(resume_text)) <= MAX_INPUT_TOKENS => truncated_text = resume_text
    /\ Truncate(truncated_text) = truncated_text

\* The candidate of tiers 1 and 2, before brace completion.
TierCandidate(raw) ==
  IF FenceSearch(raw).m THEN Strip(FenceGroup(raw)) ELSE CleanedOutput(raw)

LooksLikeInterior(s) == MatchQuotedKey(s) \/ MatchBareKey(s)

\* C8: brace completion applies to the candidate of either tier: one that
\* is not enclosed in braces and opens with a key pattern is wrapped in { },
\* one that is enclosed in braces is handed to the parser as it is.
C8_BraceCompletionAnyTier ==
  Extracted =>
    LET c == TierCandidate(raw_output)
    IN  /\ c # << >> /\ ~IsBraced(c) /\ LooksLikeInterior(c)
             => parsed_json_text = <<"{">> \o c \o <<"}">>
        /\ IsBraced(c) => parsed_json_text = c

Pipeline == <<"truncate", "prompt", "generate", "extract", "parse", "present">>

\* C9: the steps of a request are taken in the order truncate, prompt,
\* generate, extract, parse, present, each at most once; the generator is
\* called once, with the prompt built from the truncated text, and a parse
\* failure causes no second call.
C9_PipelineOrder ==
  /\ IsPrefix(steps, Pipeline)
  /\ Len(generator_calls) <= 1
  /\ Extracted =>
       /\ generator_calls = <<prompt>>
       /\ prompt = <<"INSTRUCTIONS">> \o truncated_text \o <<"FORMAT">>
       /\ truncated_text = Decode(encoded_input)
  /\ Finished => steps = Pipeline

\* C9 witness: a request whose parse failed ended with one generator call.
C9_Witness ==
  /\ pc = "done"
  /\ parse_error # ""
  /\ steps = Pipeline
  /\ Len(generator_calls) = 1

\* C10: at the end of a request the presenter has reported an analysis
\* error exactly when the parse failed, and every candidate that parsed to
\* an object was rendered and offered for download.
C10_ErrorIffParseFailed ==
  Finished =>
    /\ FailureReported <=> parse_error # ""
    /\ parse_error = "" /\ analysis_result.t = "obj" => RecordRendered /\ exc = ""

====
